---- MODULE Spec2Model ----
(***************************************************************************)
(* Model of the deadlines table (pages/Run/Deadlines.tsx) and of the       *)
(* duration chart's failed-icon canvas plugin (createFailedIconPlugin).    *)
(*                                                                         *)
(* The table component is a state machine over its React state             *)
(* (sortField, sortDir, showMissedOnly), the result of the data hook       *)
(* (isLoading, data) and what the last render put on screen (rendered).    *)
(* The plugin is a state machine over the closure of the plugin instance   *)
(* (failedIndices, failedIconColor), the chart's dataset-1 elements and    *)
(* the 2D drawing context (style, save stack, emitted commands).           *)
(***************************************************************************)
EXTENDS Integers, Sequences, FiniteSets

VARIABLES
    isLoading,        \* useDeadlinesServiceGetDagRunDeadlines(...).isLoading
    data,             \* its data: <<>> is undefined, <<list>> a fetched list
    sortField,        \* useState<SortField>
    sortDir,          \* useState<SortDir>
    showMissedOnly,   \* useState(false)
    fetches,          \* network requests issued by the data hook so far
    rendered,         \* what the last render of Deadlines returned
    clicks,           \* history: the header clicks since the last other event
    engine,           \* the JavaScript engine the page runs on
    failedIndices,    \* createFailedIconPlugin's first argument (closure)
    failedIconColor,  \* createFailedIconPlugin's second argument (closure)
    metaData,         \* chart.getDatasetMeta(1).data: the rendered elements
    ctxStyle,         \* the drawing context's current style state
    ctxStack,         \* the drawing context's save stack
    cmds,             \* commands received by the context in this render pass
    calls             \* afterDatasetsDraw calls in this render pass

tableVars == <<isLoading, data, sortField, sortDir, showMissedOnly, fetches, rendered, clicks,
               engine>>
pluginVars == <<failedIndices, failedIconColor, metaData, ctxStyle, ctxStack, cmds, calls>>
vars == <<isLoading, data, sortField, sortDir, showMissedOnly, fetches, rendered, clicks, engine,
          failedIndices, failedIconColor, metaData, ctxStyle, ctxStack, cmds, calls>>

(***************************************************************************)
(* Bounds of the model.                                                    *)
(***************************************************************************)
MaxLen == 4
MaxFailed == 2
MaxPoints == 3
MaxCalls == 2

(***************************************************************************)
(* JavaScript values.  A number is <<n>>, NaN is <<>>; an optional string  *)
(* is <<s>>, null/undefined is <<>>.                                       *)
(***************************************************************************)
NaN == <<>>
Missing == <<>>

SortFields == {"alert_name", "created_at", "deadline_time", "missed"}
SortDirs == {"asc", "desc"}

\* ISO timestamps of the API and two strings Date cannot parse.
T1 == "1970-01-01T00:00:01Z"
T2 == "1970-01-01T00:00:02Z"
T3 == "1970-01-01T00:00:03Z"
BadTime == "not-a-date"

\* new Date(s).getTime(): epoch milliseconds, NaN for an invalid date.
DateGetTime(s) ==
    CASE s = T1 -> <<1000>>
      [] s = T2 -> <<2000>>
      [] s = T3 -> <<3000>>
      [] OTHER -> NaN

\* Number(b) of a boolean.
NumberOfBool(b) == IF b THEN <<1>> ELSE <<0>>

\* JS subtraction: NaN when either operand is NaN.
JsSub(l, r) == IF l = NaN \/ r = NaN THEN NaN ELSE <<l[1] - r[1]>>

\* JS unary minus.
JsNeg(v) == IF v = NaN THEN NaN ELSE <<0 - v[1]>>

\* name ?? "".
Coalesce(name) == IF name = Missing THEN "" ELSE name[1]

\* Collation rank of the alert names of the model: "" < "a" < "b".
NameRank(s) == CASE s = "" -> 0 [] s = "a" -> 1 [] s = "b" -> 2

\* String.prototype.localeCompare: negative, zero or positive.
LocaleCompare(l, r) ==
    IF NameRank(l) < NameRank(r) THEN <<0 - 1>>
    ELSE IF NameRank(l) > NameRank(r) THEN <<1>>
    ELSE <<0>>

(***************************************************************************)
(* The records the API can return, without their id; a fetched list gives  *)
(* the i-th record the id i.                                               *)
(***************************************************************************)
DeadlinePool ==
    { [alert_name |-> <<"b">>, deadline_time |-> T1, created_at |-> T2, missed |-> TRUE],
      [alert_name |-> <<"a">>, deadline_time |-> T2, created_at |-> T1, missed |-> FALSE],
      [alert_name |-> Missing, deadline_time |-> T3, created_at |-> BadTime, missed |-> TRUE],
      [alert_name |-> <<"">>, deadline_time |-> "", created_at |-> T1, missed |-> FALSE] }

WithId(p, i) ==
    [id |-> i, alert_name |-> p.alert_name, deadline_time |-> p.deadline_time,
     created_at |-> p.created_at, missed |-> p.missed]

DeadlineLists ==
    UNION { { [i \in 1..n |-> WithId(s[i], i)] : s \in [1..n -> DeadlinePool] } : n \in 0..MaxLen }

(***************************************************************************)
(* sortDeadlines: the comparator and Array.prototype.sort.                 *)
(***************************************************************************)
\* Mutation of comparefn: the result is never negated for "desc".
comparefnNoNegate(field, dir, left, right) ==
    IF field = "deadline_time" \/ field = "created_at"
    THEN JsSub(DateGetTime(left[field]), DateGetTime(right[field]))
    ELSE IF field = "missed"
    THEN JsSub(NumberOfBool(left.missed), NumberOfBool(right.missed))
    ELSE LocaleCompare(Coalesce(left.alert_name), Coalesce(right.alert_name))

\* The arrow function passed to sort (lines 32-47).
comparefn(field, dir, left, right) ==
    LET comparison ==
            IF field = "deadline_time" \/ field = "created_at"
            THEN JsSub(DateGetTime(left[field]), DateGetTime(right[field]))
            ELSE IF field = "missed"
            THEN JsSub(NumberOfBool(left.missed), NumberOfBool(right.missed))
            ELSE LocaleCompare(Coalesce(left.alert_name), Coalesce(right.alert_name))
    IN IF dir = "desc" THEN JsNeg(comparison) ELSE comparison

\* The engine's call of the comparator: ToNumber of the result, NaN read as +0.
SortCompare(field, dir, x, y) ==
    LET v == comparefn(field, dir, x, y) IN IF v = NaN THEN 0 ELSE v[1]

RECURSIVE RunLength(_, _, _, _, _)
\* Length of the run a[1..], a[idx-1] being its last element so far.
RunLength(a, idx, isDescending, field, dir) ==
    IF idx > Len(a) THEN idx - 1
    ELSE LET order == SortCompare(field, dir, a[idx], a[idx - 1])
         IN IF (isDescending /\ order >= 0) \/ (~isDescending /\ order < 0)
            THEN idx - 1
            ELSE RunLength(a, idx + 1, isDescending, field, dir)

\* The array with its first n elements reversed.
ReverseRange(a, n) == [i \in 1..Len(a) |-> IF i <= n THEN a[n + 1 - i] ELSE a[i]]

\* The "timsort" engine's first step: the initial run, made ascending.  <<array, run length>>.
CountAndMakeRun(a, field, dir) ==
    IF Len(a) < 2 THEN <<a, Len(a)>>
    ELSE LET isDescending == SortCompare(field, dir, a[2], a[1]) < 0
             runLength == RunLength(a, 3, isDescending, field, dir)
         IN <<IF isDescending THEN ReverseRange(a, runLength) ELSE a, runLength>>

RECURSIVE BinarySearch(_, _, _, _, _, _)
\* 0-based insertion point of pivot in a[left..right-1], right of its equals.
BinarySearch(a, pivot, left, right, field, dir) ==
    IF left >= right THEN left
    ELSE LET mid == left + ((right - left) \div 2)
             order == SortCompare(field, dir, pivot, a[mid + 1])
         IN IF order < 0
            THEN BinarySearch(a, pivot, left, mid, field, dir)
            ELSE BinarySearch(a, pivot, mid + 1, right, field, dir)

\* a with the element at 0-based position start moved to 0-based position left.
InsertAt(a, start, left) ==
    [i \in 1..Len(a) |->
        IF i - 1 < left \/ i - 1 > start THEN a[i]
        ELSE IF i - 1 = left THEN a[start + 1]
        ELSE a[i - 1]]

RECURSIVE BinaryInsertionSort(_, _, _, _)
\* Binary insertion of a[start..] (0-based) into the sorted prefix.
BinaryInsertionSort(a, start, field, dir) ==
    IF start >= Len(a) THEN a
    ELSE LET left == BinarySearch(a, a[start + 1], 0, start, field, dir)
         IN BinaryInsertionSort(InsertAt(a, start, left), start + 1, field, dir)

\* The engines the component is run on.  Both sort arrays of fewer than 64
\* elements by binary insertion; "timsort" (V8 as in Node 14-22) first takes
\* the initial run and inserts the rest, "insertion" (V8 as in Chrome 147)
\* inserts from the second element on.
Engines == {"timsort", "insertion"}

\* Array.prototype.sort on a copy.  With a consistent comparator both engines
\* give the one stable order ECMAScript requires; with an inconsistent one
\* (NaN results) the language leaves the order to the engine, and the two
\* engines differ.
ArraySort(a, field, dir) ==
    IF engine = "timsort"
    THEN LET run == CountAndMakeRun(a, field, dir)
         IN BinaryInsertionSort(run[1], run[2], field, dir)
    ELSE BinaryInsertionSort(a, 1, field, dir)

sortDeadlines(deadlines, field, dir) == ArraySort(deadlines, field, dir)

(***************************************************************************)
(* The Deadlines component.                                                *)
(***************************************************************************)
\* Mutation of FilterMissed: the predicate is inverted.
FilterNotMissed(deadlines) == SelectSeq(deadlines, LAMBDA deadline : ~deadline.missed)

\* deadlines.filter((deadline) => deadline.missed)
FilterMissed(deadlines) == SelectSeq(deadlines, LAMBDA deadline : deadline.missed)

\* Line 79.
filteredDeadlines(deadlines, missedOnly) ==
    IF missedOnly THEN FilterMissed(deadlines) ELSE deadlines

\* Mutation of Render: the emptiness test runs on the filtered list.
RenderEmptyAfterFilter(loading, fetched, missedOnly, field, dir) ==
    IF loading
    THEN [view |-> "skeleton", toggle |-> FALSE, rows |-> <<>>]
    ELSE IF fetched = <<>> \/ Len(filteredDeadlines(fetched[1], missedOnly)) = 0
    THEN [view |-> "empty", toggle |-> FALSE, rows |-> <<>>]
    ELSE [view |-> "table", toggle |-> TRUE,
          rows |-> sortDeadlines(filteredDeadlines(fetched[1], missedOnly), field, dir)]

\* The component's return value (lines 67-151): which view, whether the
\* show-missed-only checkbox is part of it, and the rows of Table.Body.
Render(loading, fetched, missedOnly, field, dir) ==
    IF loading
    THEN [view |-> "skeleton", toggle |-> FALSE, rows |-> <<>>]
    ELSE IF fetched = <<>> \/ Len(fetched[1]) = 0
    THEN [view |-> "empty", toggle |-> FALSE, rows |-> <<>>]
    ELSE [view |-> "table", toggle |-> TRUE,
          rows |-> sortDeadlines(filteredDeadlines(fetched[1], missedOnly), field, dir)]

\* Mutation of handleSortState: a new field keeps the current direction.
handleSortKeepDir(curField, curDir, field) ==
    IF curField = field
    THEN <<curField, IF curDir = "asc" THEN "desc" ELSE "asc">>
    ELSE <<field, curDir>>

\* Mutation of handleSortState: a click on the active field always sets "desc".
handleSortStuckDesc(curField, curDir, field) ==
    IF curField = field THEN <<curField, "desc">> ELSE <<field, "asc">>

\* The state setters handleSort calls (lines 58-65): the next <<sortField, sortDir>>.
handleSortState(curField, curDir, field) ==
    IF curField = field
    THEN <<curField, IF curDir = "asc" THEN "desc" ELSE "asc">>
    ELSE <<field, "asc">>

\* History of header clicks: n consecutive clicks (1 or 2) on header field with
\* no other event in between, and the sort state and rows before the first.
NoClicks == [n |-> 0, field |-> "", field0 |-> "", dir0 |-> "", rows0 |-> <<>>]

RecordClick(h, field, curField, curDir, curRows) ==
    IF h.n = 1 /\ h.field = field
    THEN [h EXCEPT !.n = 2]
    ELSE [n |-> 1, field |-> field, field0 |-> curField, dir0 |-> curDir, rows0 |-> curRows]

(***************************************************************************)
(* createFailedIconPlugin.  Canvas coordinates are in tenths of a unit, so *)
(* that ICON_SIZE * 0.55 is exact.                                         *)
(***************************************************************************)
ICON_SIZE == 14
ICON_OFFSET == 4

Tenths(n) == 10 * n

\* A command received by the drawing context: its name, two numbers, a string.
Cmd(op, x, y, s) == [op |-> op, x |-> x, y |-> y, s |-> s]

\* The context: current style, save stack, commands received.
\* ctx.save(): push the style state.
CtxSave(c) ==
    [style |-> c.style, stack |-> Append(c.stack, c.style),
     out |-> Append(c.out, Cmd("save", 0, 0, ""))]

\* ctx.restore(): pop the style state; no effect on an empty stack.
CtxRestore(c) ==
    IF Len(c.stack) = 0
    THEN [c EXCEPT !.out = Append(@, Cmd("restore", 0, 0, ""))]
    ELSE [style |-> c.stack[Len(c.stack)],
          stack |-> SubSeq(c.stack, 1, Len(c.stack) - 1),
          out |-> Append(c.out, Cmd("restore", 0, 0, ""))]

\* An assignment to a string-valued style property.
CtxSet(c, prop, value) ==
    [c EXCEPT !.style[prop] = value, !.out = Append(@, Cmd(prop, 0, 0, value))]

\* ctx.lineWidth = n.
CtxSetLineWidth(c, n) ==
    [c EXCEPT !.style.lineWidth = n, !.out = Append(@, Cmd("lineWidth", n, 0, ""))]

\* beginPath, moveTo, lineTo, closePath.
CtxPath(c, op, x, y) == [c EXCEPT !.out = Append(@, Cmd(op, x, y, ""))]

\* ctx.fill(): paints with the current fillStyle.
CtxFill(c) == [c EXCEPT !.out = Append(@, Cmd("fill", 0, 0, c.style.fillStyle))]

\* ctx.stroke(): paints with the current strokeStyle and lineWidth.
CtxStroke(c) ==
    [c EXCEPT !.out = Append(@, Cmd("stroke", c.style.lineWidth, 0, c.style.strokeStyle))]

\* ctx.fillText(text, x, y).
CtxFillText(c, text, x, y) == [c EXCEPT !.out = Append(@, Cmd("fillText", x, y, text))]

\* `bold ${ICON_SIZE * 0.6}px sans-serif`
IconFont == IF ICON_SIZE = 14 THEN "bold 8.4px sans-serif" ELSE "bold ?px sans-serif"

\* Mutation of ElementAt: an index past the end is clamped to the last element.
ElementAtClamped(elements, index) ==
    IF index < 0 \/ Len(elements) = 0 THEN <<>>
    ELSE IF index < Len(elements) THEN <<elements[index + 1]>>
    ELSE <<elements[Len(elements)]>>

\* meta.data[index]: <<element>>, or <<>> (undefined) when there is none.
ElementAt(elements, index) ==
    IF index >= 0 /\ index < Len(elements) THEN <<elements[index + 1]>> ELSE <<>>

\* Lines 51-62: the triangle path, filled and stroked in color.
DrawTriangle(c, iconX, iconY, color) ==
    LET half == Tenths(ICON_SIZE) \div 2
        c2 == CtxPath(c, "beginPath", 0, 0)
        c3 == CtxPath(c2, "moveTo", iconX, iconY + Tenths(ICON_SIZE))
        c4 == CtxPath(c3, "lineTo", iconX - half, iconY)
        c5 == CtxPath(c4, "lineTo", iconX + half, iconY)
        c6 == CtxPath(c5, "closePath", 0, 0)
        c7 == CtxSet(c6, "fillStyle", color)
        c8 == CtxFill(c7)
        c9 == CtxSet(c8, "strokeStyle", color)
        c10 == CtxSetLineWidth(c9, 1)
    IN CtxStroke(c10)

\* Lines 64-68: the exclamation mark.
DrawGlyph(c, iconX, iconY) ==
    LET c12 == CtxSet(c, "fillStyle", "white")
        c13 == CtxSet(c12, "font", IconFont)
        c14 == CtxSet(c13, "textAlign", "center")
        c15 == CtxSet(c14, "textBaseline", "middle")
    IN CtxFillText(c15, "!", iconX, iconY + ((ICON_SIZE * 55) \div 10))

\* Mutation of DrawIcon: the closing ctx.restore() is forgotten.
DrawIconNoRestore(c, element, color) ==
    LET iconX == Tenths(element.x)
        iconY == Tenths(element.y) - Tenths(ICON_OFFSET) - Tenths(ICON_SIZE)
    IN DrawGlyph(DrawTriangle(CtxSave(c), iconX, iconY, color), iconX, iconY)

\* Lines 45-70: one icon above element, between ctx.save() and ctx.restore().
DrawIcon(c, element, color) ==
    LET iconX == Tenths(element.x)
        iconY == Tenths(element.y) - Tenths(ICON_OFFSET) - Tenths(ICON_SIZE)
    IN CtxRestore(DrawGlyph(DrawTriangle(CtxSave(c), iconX, iconY, color), iconX, iconY))

RECURSIVE ForEachIndex(_, _, _, _, _)
\* failedIndices.forEach(...) from position i on (lines 38-71).
ForEachIndex(c, indices, i, elements, color) ==
    IF i > Len(indices) THEN c
    ELSE LET element == ElementAt(elements, indices[i])
         IN IF element = <<>>
            THEN ForEachIndex(c, indices, i + 1, elements, color)
            ELSE ForEachIndex(DrawIcon(c, element[1], color), indices, i + 1, elements, color)

\* The hook (lines 26-72): the context after the call.
afterDatasetsDraw(c, indices, color, elements) ==
    IF Len(indices) = 0 THEN c
    ELSE IF Len(elements) = 0 THEN c
    ELSE ForEachIndex(c, indices, 1, elements, color)

\* Inputs of the plugin.
IndexValues == {0 - 1, 0, 2, 5}
Colors == {"red", "#ff0000"}
PointPool == {[x |-> 10, y |-> 30], [x |-> 25, y |-> 12]}

SeqsUpTo(S, n) == UNION { [1..k -> S] : k \in 0..n }

\* The context's default style state, and one the host chart may leave behind.
InitStyle ==
    [fillStyle |-> "#000", strokeStyle |-> "#000", lineWidth |-> 1,
     font |-> "10px sans-serif", textAlign |-> "start", textBaseline |-> "alphabetic"]
HostStyle ==
    [fillStyle |-> "blue", strokeStyle |-> "gray", lineWidth |-> 2,
     font |-> "12px sans-serif", textAlign |-> "left", textBaseline |-> "top"]

\* The context as the host leaves it: untouched, or restyled inside a save.
HostContexts ==
    { [style |-> InitStyle, stack |-> <<>>], [style |-> HostStyle, stack |-> <<InitStyle>>] }

TableInit ==
    /\ isLoading = TRUE
    /\ data = <<>>
    /\ sortField = "deadline_time"
    /\ sortDir = "asc"
    /\ showMissedOnly = FALSE
    /\ fetches = 1
    /\ rendered = Render(TRUE, <<>>, FALSE, "deadline_time", "asc")
    /\ clicks = NoClicks
    /\ engine \in Engines

PluginInit ==
    /\ failedIndices = <<>>
    /\ failedIconColor = "red"
    /\ metaData = <<>>
    /\ ctxStyle = InitStyle
    /\ ctxStack = <<>>
    /\ cmds = <<>>
    /\ calls = 0

Init == TableInit /\ PluginInit

\* The data hook resolves: undefined data (no result) or a fetched list.
FetchResolve ==
    /\ isLoading
    /\ \E result \in {<<>>} \cup { <<l>> : l \in DeadlineLists } :
          /\ isLoading' = FALSE
          /\ data' = result
          /\ rendered' = Render(FALSE, result, showMissedOnly, sortField, sortDir)
    /\ clicks' = NoClicks
    /\ UNCHANGED <<sortField, sortDir, showMissedOnly, fetches, engine>>
    /\ UNCHANGED pluginVars

\* A click on a sortable column header (lines 102-120), then the re-render.
handleSort ==
    /\ rendered.view = "table"
    /\ \E field \in SortFields :
          LET next == handleSortState(sortField, sortDir, field)
          IN /\ sortField' = next[1]
             /\ sortDir' = next[2]
             /\ rendered' = Render(isLoading, data, showMissedOnly, next[1], next[2])
             /\ clicks' = RecordClick(clicks, field, sortField, sortDir, rendered.rows)
    /\ UNCHANGED <<isLoading, data, showMissedOnly, fetches, engine>>
    /\ UNCHANGED pluginVars

\* A change of the checkbox (lines 89-95), then the re-render.
setShowMissedOnly ==
    /\ rendered.toggle
    /\ \E checked \in BOOLEAN :
          /\ showMissedOnly' = checked
          /\ rendered' = Render(isLoading, data, checked, sortField, sortDir)
    /\ clicks' = NoClicks
    /\ UNCHANGED <<isLoading, data, sortField, sortDir, fetches, engine>>
    /\ UNCHANGED pluginVars

\* createFailedIconPlugin(failedIndices, failedIconColor): a new plugin
\* instance for the chart, which starts a new render pass.
createFailedIconPlugin ==
    /\ \E indices \in SeqsUpTo(IndexValues, MaxFailed), color \in Colors :
          /\ failedIndices' = indices
          /\ failedIconColor' = color
    /\ cmds' = <<>>
    /\ calls' = 0
    /\ UNCHANGED <<metaData, ctxStyle, ctxStack>>
    /\ UNCHANGED tableVars

\* The host chart lays out and draws its datasets: a new render pass, which
\* leaves the context in a state of the host's choosing.
ChartDraw ==
    /\ \E elements \in SeqsUpTo(PointPool, MaxPoints), host \in HostContexts :
          /\ metaData' = elements
          /\ ctxStyle' = host.style
          /\ ctxStack' = host.stack
    /\ cmds' = <<>>
    /\ calls' = 0
    /\ UNCHANGED <<failedIndices, failedIconColor>>
    /\ UNCHANGED tableVars

\* The chart calls the hook; cmds gets the commands of this call.
AfterDatasetsDraw ==
    /\ calls < MaxCalls
    /\ LET c == afterDatasetsDraw([style |-> ctxStyle, stack |-> ctxStack, out |-> <<>>],
                                  failedIndices, failedIconColor, metaData)
       IN /\ ctxStyle' = c.style
          /\ ctxStack' = c.stack
          /\ cmds' = Append(cmds, c.out)
    /\ calls' = calls + 1
    /\ UNCHANGED <<failedIndices, failedIconColor, metaData>>
    /\ UNCHANGED tableVars

NextPlugin == createFailedIconPlugin \/ ChartDraw \/ AfterDatasetsDraw

SpecPlugin == Init /\ [][NextPlugin]_vars

Next == FetchResolve \/ handleSort \/ setShowMissedOnly

Spec == Init /\ [][Next]_vars

(***************************************************************************)
(* Properties of the deadlines table.                                      *)
(***************************************************************************)
Flip(dir) == IF dir = "asc" THEN "desc" ELSE "asc"

TimeFields == {"deadline_time", "created_at"}

\* The sort key of a record: parsed timestamp, missed as 0/1, rank of the name.
KeyOf(r, field) ==
    IF field \in TimeFields THEN DateGetTime(r[field])
    ELSE IF field = "missed" THEN (IF r.missed THEN <<1>> ELSE <<0>>)
    ELSE <<NameRank(IF r.alert_name = Missing THEN "" ELSE r.alert_name[1])>>

Range(seq) == { seq[i] : i \in 1..Len(seq) }

\* rows holds every record of list once and nothing else (ids are unique).
IsPermutation(rows, list) == Len(rows) = Len(list) /\ Range(rows) = Range(list)

\* A step that is a click on a column header.
ClickStep == clicks' # clicks /\ clicks'.n >= 1

\* C1: the sort state starts at (deadline_time, asc); a click on the active
\* header keeps the field and flips the direction, a click on another header
\* selects it with direction asc whatever the direction was; the filter, the
\* fetched list and the number of fetches are untouched by a click.
C1_HandleSort ==
    /\ (sortField = "deadline_time" /\ sortDir = "asc")
    /\ [][ClickStep =>
            /\ IF clicks'.field = sortField
               THEN sortField' = sortField /\ sortDir' = Flip(sortDir)
               ELSE sortField' = clicks'.field /\ sortDir' = "asc"
            /\ showMissedOnly' = showMissedOnly
            /\ data' = data
            /\ isLoading' = isLoading
            /\ fetches' = fetches]_vars

\* A click on another header while the direction was desc has just happened.
C1_Witness ==
    /\ clicks.n = 1
    /\ clicks.field0 # clicks.field
    /\ clicks.dir0 = "desc"
    /\ sortField = clicks.field
    /\ sortDir = "asc"

\* C2: two consecutive clicks on the active header, its direction being asc
\* before them: the first sets desc, the second sets asc again, and the rows
\* then are the rows before the clicks, the ascending rows of that field.
C2_DoubleToggle ==
    (clicks.n >= 1 /\ clicks.field0 = clicks.field /\ clicks.dir0 = "asc") =>
        /\ sortField = clicks.field
        /\ clicks.n = 1 => sortDir = "desc"
        /\ clicks.n = 2 =>
              /\ sortDir = "asc"
              /\ rendered.rows = clicks.rows0
              /\ rendered.rows =
                    Render(isLoading, data, showMissedOnly, clicks.field, "asc").rows

\* Two such clicks have happened on rows whose order depends on the direction.
C2_Witness ==
    /\ clicks.n = 2
    /\ clicks.field0 = clicks.field
    /\ clicks.dir0 = "asc"
    /\ clicks.field = "alert_name"
    /\ \E i, j \in 1..Len(rendered.rows) :
          KeyOf(rendered.rows[i], sortField) # KeyOf(rendered.rows[j], sortField)

\* C3: with the filter on, the rows are the missed records of the fetched
\* list, each once; with it off, all fetched records, each once.  A change of
\* the filter leaves sort field, direction and fetched list alone.
C3_Filter ==
    /\ [](rendered.view = "table" =>
            /\ \A r \in Range(data[1]) :
                  Cardinality({ k \in 1..Len(rendered.rows) : rendered.rows[k] = r })
                     = IF showMissedOnly /\ ~r.missed THEN 0 ELSE 1
            /\ Range(rendered.rows) \subseteq Range(data[1]))
    /\ [][showMissedOnly' # showMissedOnly =>
            sortField' = sortField /\ sortDir' = sortDir /\ data' = data]_vars

\* The filter is on and hides some but not all of the fetched records.
C3_Witness ==
    /\ rendered.view = "table"
    /\ showMissedOnly
    /\ Len(rendered.rows) >= 1
    /\ Len(rendered.rows) < Len(data[1])

\* C4 (as claimed): two rows that the comparison finds equal are in fetch
\* order (ids are fetch positions), for every field and both directions.
C4_StableClaim ==
    rendered.view = "table" =>
        \A i, j \in 1..Len(rendered.rows) :
            (i < j /\ SortCompare(sortField, sortDir, rendered.rows[i], rendered.rows[j]) = 0)
                => rendered.rows[i].id < rendered.rows[j].id

\* All keys of the rows can be compared (no unparsable timestamp).
WellFormed(rows, field) == \A i \in 1..Len(rows) : KeyOf(rows[i], field) # NaN

\* Rows i and i+1 are in the order the direction asks for.
InOrder(rows, i, field, dir) ==
    IF dir = "asc"
    THEN KeyOf(rows[i], field)[1] <= KeyOf(rows[i + 1], field)[1]
    ELSE KeyOf(rows[i], field)[1] >= KeyOf(rows[i + 1], field)[1]

Ids(rows) == [i \in 1..Len(rows) |-> rows[i].id]

\* The list of the specification's example: 1 missed with the earlier
\* deadline, 2 not missed with the later one.
ExampleList ==
    << [id |-> 1, alert_name |-> <<"b">>, deadline_time |-> T1, created_at |-> T2, missed |-> TRUE],
       [id |-> 2, alert_name |-> <<"a">>, deadline_time |-> T2, created_at |-> T1, missed |-> FALSE] >>

\* C5: with well-formed keys the rows are a permutation of the filtered list,
\* non-decreasing by key under asc and non-increasing under desc; the example
\* list renders as [1, 2] by deadline_time asc and as [2, 1] by missed asc; the
\* fetched list is never changed by a render.
C5_Sorted ==
    /\ []((rendered.view = "table" /\ WellFormed(rendered.rows, sortField)) =>
            /\ IsPermutation(rendered.rows,
                             IF showMissedOnly
                             THEN SelectSeq(data[1], LAMBDA r : r.missed)
                             ELSE data[1])
            /\ \A i \in 1..(Len(rendered.rows) - 1) :
                  InOrder(rendered.rows, i, sortField, sortDir)
            /\ (data = <<ExampleList>> /\ ~showMissedOnly /\ sortDir = "asc") =>
                  /\ sortField = "deadline_time" => Ids(rendered.rows) = <<1, 2>>
                  /\ sortField = "missed" => Ids(rendered.rows) = <<2, 1>>)
    /\ [][~isLoading => data' = data]_vars

\* Three or more rows with different well-formed keys, sorted descending.
C5_Witness ==
    /\ rendered.view = "table"
    /\ sortDir = "desc"
    /\ sortField = "deadline_time"
    /\ WellFormed(rendered.rows, sortField)
    /\ Len(rendered.rows) >= 3
    /\ KeyOf(rendered.rows[1], sortField) # KeyOf(rendered.rows[Len(rendered.rows)], sortField)

\* The input of the sort behind the rendered rows.
SortInput == IF showMissedOnly THEN SelectSeq(data[1], LAMBDA r : r.missed) ELSE data[1]

Reverse(seq) == [i \in 1..Len(seq) |-> seq[Len(seq) + 1 - i]]

Keys(rows, field) == [i \in 1..Len(rows) |-> KeyOf(rows[i], field)]

\* C6 (as claimed): sorted by a timestamp field, the rows with a parsable
\* timestamp are in order among themselves, the rows with an unparsable one
\* are all on one side of them (one sentinel), and the same records fetched
\* in another order give the same sequence of keys.
C6_MalformedClaim ==
    (rendered.view = "table" /\ sortField \in TimeFields) =>
        LET rows == rendered.rows
            bad(i) == KeyOf(rows[i], sortField) = NaN
        IN /\ \A i, j \in 1..Len(rows) :
                 (i < j /\ ~bad(i) /\ ~bad(j)) =>
                     IF sortDir = "asc"
                     THEN KeyOf(rows[i], sortField)[1] <= KeyOf(rows[j], sortField)[1]
                     ELSE KeyOf(rows[i], sortField)[1] >= KeyOf(rows[j], sortField)[1]
           /\ \/ \A i, j \in 1..Len(rows) : (bad(i) /\ ~bad(j)) => i < j
              \/ \A i, j \in 1..Len(rows) : (bad(i) /\ ~bad(j)) => i > j
           /\ Keys(sortDeadlines(Reverse(SortInput), sortField, sortDir), sortField)
                 = Keys(rows, sortField)

\* C10: the view is the skeleton iff loading, the empty message iff not
\* loading and the fetched list is absent or empty, the table with the toggle
\* otherwise, whatever the filter and the sort state; a non-empty list whose
\* records are all filtered out is a table with no rows and with the toggle.
C10_Views ==
    /\ rendered.view \in {"skeleton", "empty", "table"}
    /\ rendered.view = "skeleton" <=> isLoading
    /\ rendered.view = "empty" <=> (~isLoading /\ (data = <<>> \/ Len(data[1]) = 0))
    /\ rendered.view = "table" <=> (~isLoading /\ data # <<>> /\ Len(data[1]) > 0)
    /\ rendered.toggle <=> rendered.view = "table"
    /\ (/\ ~isLoading
        /\ data # <<>>
        /\ Len(data[1]) > 0
        /\ showMissedOnly
        /\ \A i \in 1..Len(data[1]) : ~data[1][i].missed)
          => (rendered.view = "table" /\ rendered.rows = <<>> /\ rendered.toggle)

\* The filter hides every record of a non-empty list.
C10_Witness ==
    /\ ~isLoading
    /\ data # <<>>
    /\ Len(data[1]) > 0
    /\ showMissedOnly
    /\ rendered.view = "table"
    /\ rendered.rows = <<>>
(***************************************************************************)
(* Properties of the failed-icon plugin.                                   *)
(***************************************************************************)
\* The entries of failedIndices that address an element of dataset 1.
InRangeEntries ==
    SelectSeq(failedIndices, LAMBDA index : index \in 0..(Len(metaData) - 1))

\* How many commands named op a call's log holds.
CountOp(log, op) == Cardinality({ i \in 1..Len(log) : log[i].op = op })

\* The vertices of the paths of a log, in drawing order.
Vertices(log) == SelectSeq(log, LAMBDA cmd : cmd.op \in {"moveTo", "lineTo"})

\* C7: a call emits no command at all when failedIndices is empty, when
\* dataset 1 has no element, or when no entry is in range; otherwise one
\* triangle (one path of three vertices, filled and stroked) and one glyph,
\* inside one save/restore, per entry in range and nothing for the others.
C7_SkipsMissing ==
    \A k \in 1..Len(cmds) :
        LET log == cmds[k]
            n == Len(InRangeEntries)
        IN /\ (Len(failedIndices) = 0 \/ Len(metaData) = 0 \/ n = 0) => log = <<>>
           /\ CountOp(log, "beginPath") = n
           /\ CountOp(log, "fill") = n
           /\ CountOp(log, "stroke") = n
           /\ CountOp(log, "fillText") = n
           /\ CountOp(log, "save") = n
           /\ CountOp(log, "restore") = n
           /\ Len(Vertices(log)) = 3 * n

\* A call with an out-of-range entry (5) and an in-range one (2), 3 points.
C7_Witness ==
    /\ failedIndices = <<5, 2>>
    /\ Len(metaData) = 3
    /\ Len(cmds) >= 1
    /\ cmds[1] # <<>>

\* C8 (as claimed): the j-th triangle drawn belongs to the j-th entry in
\* range, whose element is at (x, y); its base vertices are (x-7, y-4) and
\* (x+7, y-4) and its apex is (x, y-18), in tenths of a unit here.
C8_TriangleClaim ==
    \A k \in 1..Len(cmds) :
        \A j \in 1..Len(InRangeEntries) :
            LET v == Vertices(cmds[k])
                e == metaData[InRangeEntries[j] + 1]
                x == 10 * e.x
                y == 10 * e.y
            IN { <<v[3 * j - 2].x, v[3 * j - 2].y>>,
                 <<v[3 * j - 1].x, v[3 * j - 1].y>>,
                 <<v[3 * j].x, v[3 * j].y>> }
                  = { <<x - 70, y - 40>>, <<x + 70, y - 40>>, <<x, y - 180>> }

\* The style properties the plugin assigns.
StyleProps == {"fillStyle", "strokeStyle", "lineWidth", "font", "textAlign", "textBaseline"}

\* Saves minus restores among the first i commands of a log.
Depth(log, i) ==
    Cardinality({ m \in 1..i : log[m].op = "save" })
        - Cardinality({ m \in 1..i : log[m].op = "restore" })

\* Every save is closed by a restore before the next one, and every other
\* command, the style assignments included, lies between a save and its restore.
Disciplined(log) ==
    /\ Depth(log, Len(log)) = 0
    /\ \A i \in 1..Len(log) :
          IF log[i].op = "save" THEN Depth(log, i - 1) = 0 ELSE Depth(log, i - 1) = 1

\* C9: a call leaves the context's style state and save stack as it found
\* them, writes no chart state, keeps save/restore discipline, and emits the
\* commands the previous call with the same inputs emitted.
C9_RestoresContext ==
    [][calls' = calls + 1 =>
          /\ ctxStyle' = ctxStyle
          /\ ctxStack' = ctxStack
          /\ metaData' = metaData
          /\ failedIndices' = failedIndices
          /\ failedIconColor' = failedIconColor
          /\ Disciplined(cmds'[calls'])
          /\ calls >= 1 => cmds'[calls'] = cmds[calls]]_vars

\* Two calls that drew icons, on a context the host had restyled and saved.
C9_Witness ==
    /\ calls = 2
    /\ cmds[1] # <<>>
    /\ \E i \in 1..Len(cmds[2]) : cmds[2][i].op \in StyleProps
    /\ ctxStyle = HostStyle
    /\ ctxStack = <<InitStyle>>
====
